---- MODULE Spec2Model ----
(***************************************************************************)
(* Killfeed generator: the POST handler of main.py (numeral validation,    *)
(* cleanup_old_images, choice of compositor, response) and the reverse     *)
(* compositor create_rev_killfeed of rev_generator.py (asset loading,      *)
(* layout, the save / re-save / flatten sequence on the output directory). *)
(*                                                                         *)
(* Lengths that the code keeps as floats (text lengths and everything      *)
(* computed from them) are integers in units of 1/Sub pixel; lengths the   *)
(* code keeps as ints (image sizes, paste offsets) are in pixels.          *)
(* Time is in ticks of 1/Hz second.                                        *)
(***************************************************************************)
EXTENDS Integers, Sequences, FiniteSets, TLC

VARIABLES clock, nticks, assets, dims, files, issued, nposts, pc, req, loc, resp

vars == <<clock, nticks, assets, dims, files, issued, nposts, pc, req, loc, resp>>

----------------------------------------------------------------------------
(* Bounds of the model *)

\* ticks per second of the model's clock
Hz == 2
\* how many times the clock advances in one behaviour
MaxTicks == 2
\* how many POST requests are handled in one behaviour
MaxPosts == 2
\* how many asset files may be absent from the assets directory
MaxMissing == 1

----------------------------------------------------------------------------
(* Program constants *)

\* python None, kept apart from every string a form can submit
NoneVal == "<None>"

IMG_HEIGHT == 128
AGENT_ICON_SIZE == <<256, 128>>
WEAPON_ICON_HEIGHT == 90
HEADSHOT_ICON_SIZE == <<72, 72>>
PADDING == 40
AgeSeconds == 180
OUTPUT_PATH == "generated_killfeeds_v1"
FONT_PATH == "fonts/dinnextw1g_medium.otf"
numeral_valid_values == {"3", "4", "5", "6", "7"}

\* ImageDraw.textlength returns a float with 1/64 pixel precision
Sub == 64

Px(n) == n * Sub

\* python int(): truncation toward zero of a length in 1/Sub pixel
PyInt(x) == IF x >= 0 THEN x \div Sub ELSE -((-x) \div Sub)

Max(a, b) == IF a >= b THEN a ELSE b

\* python truthiness of the numeral argument (None and "" are falsy)
Truthy(numeral) == numeral # NoneVal /\ numeral # ""

\* str() of a value inside an f-string
PyStr(v) == IF v = NoneVal THEN "None" ELSE v

\* os.path.join(dir, name) and os.path.basename of such a path
PathJoin(dir, name) == [dir |-> dir, name |-> name]
Basename(path) == path.name

----------------------------------------------------------------------------
(* Asset files *)

AgentFile(agent) == "agents/" \o agent
WeaponFile(weapon) == "weapons/" \o weapon
HeadshotFile == "icons/headshot.png"
WallbangFile == "icons/wallbang.png"
MeBorderFile == "ui/MeBorder.png"
MeBorderTriangleFile == "ui/MeBorderTriangle.png"
NumeralFile(numeral) == "ui/Rev_Numeral_" \o PyStr(numeral) \o ".png"

----------------------------------------------------------------------------
(* Layout of create_rev_killfeed, sections 2 to 5 *)

\* weapon_img.resize((int(width * ratio), 90)) with ratio = 90 / height
ResizedWeaponWidth(size) == (size[1] * WEAPON_ICON_HEIGHT) \div size[2]

\* a variant that reserves the width although the icon was not loaded
HeadshotWidthReserved(is_headshot, present) ==
    IF is_headshot THEN Px(HEADSHOT_ICON_SIZE[1] + 10) ELSE 0

\* headshot_width / wallbang_width: icon width + 10, or 0 when the flag is
\* off or the icon file is missing
HeadshotWidth(is_headshot, present) ==
    IF is_headshot /\ present THEN Px(HEADSHOT_ICON_SIZE[1] + 10) ELSE 0

WallbangWidth(is_wallbang, present) ==
    IF is_wallbang /\ present THEN Px(72 + 10) ELSE 0

\* a variant with one padding fewer
TotalWidthFourPaddings(kw, ww, hsw, wbw, vw) ==
    Px(AGENT_ICON_SIZE[1]) + Px(PADDING) + kw + Px(PADDING) + ww + hsw
      + wbw + Px(PADDING) + vw + Px(PADDING) + Px(AGENT_ICON_SIZE[1])

\* total_width
TotalWidth(kw, ww, hsw, wbw, vw) ==
    Px(AGENT_ICON_SIZE[1]) + Px(PADDING) + kw + Px(PADDING) + ww + hsw
      + Px(PADDING) + wbw + Px(PADDING) + vw + Px(PADDING)
      + Px(AGENT_ICON_SIZE[1])

\* mid_point_x
MidPointX(kw, ww, hsw, wbw) ==
    Px(AGENT_ICON_SIZE[1]) + Px(PADDING) + kw + Px(PADDING) + ww + hsw
      + Px(PADDING) + Px(PADDING) + wbw

\* mid_point_x_weapon
MidPointXWeapon(kw, ww) ==
    Px(AGENT_ICON_SIZE[1]) + Px(PADDING) + kw + Px(PADDING) + (ww \div 2)

\* paste offsets of the agent icons and the names
KillerAgentX == 0

\* a variant that puts the victim's icon at the left edge
VictimAgentXLeft(total) == 0

VictimAgentX(total) == PyInt(total - Px(AGENT_ICON_SIZE[1]))

KillerTextX == AGENT_ICON_SIZE[1] + PADDING

VictimTextX(total, vw) == PyInt(total - Px(AGENT_ICON_SIZE[1]) - vw)

\* a variant that lays the addition over the image instead of beside it
ExtendOver(img, extra) == <<Max(img[1], extra[1]), Max(img[2], extra[2])>>

\* new_width, new_height of the image widened by a triangle or a badge
Extend(img, extra) == <<img[1] + extra[1], Max(img[2], extra[2])>>

\* a polygon is a sequence of points <<x in 1/Sub pixel, y in pixels>>
KillerBgShape(mid) ==
    << <<0, 0>>, <<mid - Px(20), 0>>, <<mid, IMG_HEIGHT \div 2>>,
       <<mid - Px(20), IMG_HEIGHT>>, <<0, IMG_HEIGHT>> >>

VictimBgShape(mid, total) ==
    << <<mid - Px(35), 0>>, <<total, 0>>, <<total, IMG_HEIGHT>>,
       <<mid - Px(35), IMG_HEIGHT>>, <<mid, IMG_HEIGHT \div 2>> >>

\* [(x + dx, y) for x, y in shape]
ShiftShape(shape, dx) ==
    [i \in DOMAIN shape |-> <<shape[i][1] + dx, shape[i][2]>>]

----------------------------------------------------------------------------
(* The output directory *)

\* int(datetime.now().timestamp())
Timestamp(t) == t \div Hz

\* output_filename
OutputFilename(killer_name, victim_name, numeral, t, is_player_kill) ==
    killer_name \o "_vs_" \o victim_name \o "_" \o PyStr(numeral) \o "K_"
      \o ToString(Timestamp(t)) \o "_"
      \o (IF is_player_kill THEN "Me" ELSE "") \o ".png"

\* final_image.save(path): creates or overwrites the file, setting its mtime
Save(dir, name, stage, by, size, t) ==
    (name :> [mtime |-> t, stage |-> stage, by |-> by, size |-> size]) @@ dir

\* os.remove(path)
Remove(dir, name) == [n \in DOMAIN dir \ {name} |-> dir[n]]

\* file_age > age_seconds, with file_age = now - os.path.getmtime(filepath)
TooOld(now, mtime) == now - mtime > AgeSeconds * Hz

----------------------------------------------------------------------------
(* State *)

Workers == {"w1", "w2"}

NoRet == [kind |-> "pending", path |-> PathJoin("", "")]

\* the locals of one handler run and of the compositor call it makes
InitLoc ==
    [ callid |-> 0, error |-> NoneVal, now |-> 0, todo |-> {},
      image_path |-> NoRet,
      is_headshot |-> FALSE, is_wallbang |-> FALSE,
      killer_name_width |-> 0, victim_name_width |-> 0, weapon_width |-> 0,
      headshot_width |-> 0, wallbang_width |-> 0,
      total_width |-> 0, mid_point_x |-> 0,
      killer_bg_shape |-> <<>>, victim_bg_shape |-> <<>>,
      killer_agent_x |-> 0, victim_agent_x |-> 0,
      killer_text_x |-> 0, victim_text_x |-> 0,
      weapon_x |-> 0, wallbang_x |-> 0, headshot_x |-> 0, yellow_rect_x |-> 0,
      output_filename |-> "", saved |-> "none", me_highlight |-> FALSE,
      base_width |-> 0, img |-> <<0, 0>>,
      content_x |-> 0, triangle_x |-> 0, numeral_x |-> 0,
      offset_x |-> 0,
      killer_bg_shape_shifted |-> <<>>, victim_bg_shape_shifted |-> <<>> ]

NoRequest ==
    [ killer_name |-> "", victim_name |-> "", killer_agent |-> "",
      victim_agent |-> "", weapon |-> "", is_headshot |-> FALSE,
      is_wallbang |-> FALSE, is_player_kill |-> FALSE,
      is_enemy_kill |-> FALSE, numeral |-> NoneVal ]

NoResponse == [status |-> 0, image_url |-> NoneVal, error |-> NoneVal]

\* the assets directory of the repository, for the agents and weapons used
AgentIds == {"Jett", "Sage"}
WeaponIds == {"Classic"}
AllAssets ==
    {FONT_PATH, HeadshotFile, WallbangFile, MeBorderFile, MeBorderTriangleFile}
      \cup {AgentFile(a \o ".png") : a \in AgentIds}
      \cup {WeaponFile(x \o ".png") : x \in WeaponIds}
      \cup {NumeralFile(n) : n \in numeral_valid_values}

AssetSets == {AllAssets \ m : m \in {s \in SUBSET AllAssets : Cardinality(s) <= MaxMissing}}

\* the measures of the assets: text lengths under the font (1/Sub pixel),
\* and the pixel sizes of the weapon icon, the triangle and the numeral badge
DefaultDims ==
    [ text |-> [n \in {"Jett", "Sage"} |-> IF n = "Jett" THEN 6731 ELSE 7850],
      weapon |-> <<512, 256>>, triangle |-> <<64, 128>>, numeral |-> <<96, 128>> ]

----------------------------------------------------------------------------
(* main.py: the POST handler *)

\* a variant whose list of valid values runs to 8
NumeralErrorUpTo8(numeral) ==
    IF Truthy(numeral) /\ numeral \notin (numeral_valid_values \cup {"8"})
    THEN "Only values 3, 4, 5, 6, and 7 are allowed for Numeral."
    ELSE NoneVal

\* lines 77-84: the numeral check; a request that fails it skips cleanup
\* and the compositor
NumeralError(numeral) ==
    IF Truthy(numeral) /\ numeral \notin numeral_valid_values
    THEN "Only values 3, 4, 5, 6, and 7 are allowed for Numeral."
    ELSE NoneVal

Post(w, Requests) ==
    /\ pc[w] = "idle"
    /\ nposts < MaxPosts
    /\ \E r \in Requests :
         /\ req' = [req EXCEPT ![w] = r]
         /\ loc' = [loc EXCEPT ![w] = [InitLoc EXCEPT !.callid = nposts + 1,
                                          !.error = NumeralError(r.numeral)]]
         /\ pc' = [pc EXCEPT ![w] = IF NumeralError(r.numeral) = NoneVal
                                    THEN "cleanup" ELSE "respond"]
    /\ nposts' = nposts + 1
    /\ resp' = [resp EXCEPT ![w] = NoResponse]
    /\ UNCHANGED <<clock, nticks, assets, dims, files, issued>>

\* cleanup_old_images: now = time.time() and the os.listdir snapshot
CleanupStart(w) ==
    /\ pc[w] = "cleanup"
    /\ loc' = [loc EXCEPT ![w].now = clock, ![w].todo = DOMAIN files]
    /\ pc' = [pc EXCEPT ![w] = "cleanup_loop"]
    /\ UNCHANGED <<clock, nticks, assets, dims, files, issued, nposts, req, resp>>

\* one iteration of the loop over the listing
CleanupFile(w) ==
    /\ pc[w] = "cleanup_loop"
    /\ \E f \in loc[w].todo :
         /\ files' = IF f \in DOMAIN files /\ TooOld(loc[w].now, files[f].mtime)
                     THEN Remove(files, f) ELSE files
         /\ loc' = [loc EXCEPT ![w].todo = @ \ {f}]
    /\ UNCHANGED <<clock, nticks, assets, dims, issued, nposts, pc, req, resp>>

\* lines 87-111: the compositor is chosen by is_enemy_kill
Call(w) ==
    /\ pc[w] = "cleanup_loop"
    /\ loc[w].todo = {}
    /\ pc' = [pc EXCEPT ![w] = IF req[w].is_enemy_kill THEN "rev_load" ELSE "fwd"]
    /\ UNCHANGED <<clock, nticks, assets, dims, files, issued, nposts, req, loc, resp>>

\* lines 113-137: image_filename is bound only when there was no error, and
\* os.path.basename needs a path
Respond(w) ==
    /\ pc[w] = "respond"
    /\ LET l == loc[w]
           raised == \/ l.image_path.kind = "raised"
                     \/ l.error # NoneVal
                     \/ l.image_path.kind = "none"
       IN resp' = [resp EXCEPT ![w] =
              IF raised
              THEN [status |-> 500, image_url |-> NoneVal, error |-> l.error]
              ELSE [status |-> 200,
                    image_url |-> "/generated/" \o Basename(l.image_path.path),
                    error |-> l.error]]
    /\ pc' = [pc EXCEPT ![w] = "idle"]
    /\ req' = [req EXCEPT ![w] = NoRequest]
    /\ loc' = [loc EXCEPT ![w] = InitLoc]
    /\ UNCHANGED <<clock, nticks, assets, dims, files, issued, nposts>>

Tick ==
    /\ nticks < MaxTicks
    /\ \E d \in {1, AgeSeconds * Hz} : clock' = clock + d
    /\ nticks' = nticks + 1
    /\ UNCHANGED <<assets, dims, files, issued, nposts, pc, req, loc, resp>>

----------------------------------------------------------------------------
(* rev_generator.py: create_rev_killfeed *)

\* `return` (kind "none"), `return path` (kind "path") or an exception that
\* leaves the function (kind "raised"): control goes back to the handler
Return(w, l, kind, path) ==
    /\ loc' = [loc EXCEPT ![w] = [l EXCEPT !.image_path = [kind |-> kind, path |-> path]]]
    /\ pc' = [pc EXCEPT ![w] = "respond"]

\* a variant that loads the weapon icon unguarded
RequiredMissingNoWeapon(r, present) ==
    \/ FONT_PATH \notin present
    \/ AgentFile(r.killer_agent \o ".png") \notin present
    \/ AgentFile(r.victim_agent \o ".png") \notin present

\* lines 68-100: the font and the three required icons
RequiredMissing(r, present) ==
    \/ FONT_PATH \notin present
    \/ AgentFile(r.killer_agent \o ".png") \notin present
    \/ AgentFile(r.victim_agent \o ".png") \notin present
    \/ WeaponFile(r.weapon \o ".png") \notin present

RevLoad(w) ==
    /\ pc[w] = "rev_load"
    /\ IF RequiredMissing(req[w], assets)
       THEN Return(w, loc[w], "none", PathJoin("", ""))
       ELSE /\ loc' = [loc EXCEPT ![w].weapon_width = ResizedWeaponWidth(dims.weapon)]
            /\ pc' = [pc EXCEPT ![w] = "rev_layout"]
    /\ UNCHANGED <<clock, nticks, assets, dims, files, issued, nposts, req, resp>>

\* lines 102-243: widths, canvas, background polygons, paste and text offsets
RevLayout(w) ==
    /\ pc[w] = "rev_layout"
    /\ LET r == req[w]
           kw == dims.text[r.killer_name]
           vw == dims.text[r.victim_name]
           ww == loc[w].weapon_width
           hs == r.is_headshot /\ HeadshotFile \in assets
           wb == r.is_wallbang /\ WallbangFile \in assets
           hsw == HeadshotWidth(r.is_headshot, HeadshotFile \in assets)
           wbw == WallbangWidth(r.is_wallbang, WallbangFile \in assets)
           total == TotalWidth(kw, Px(ww), hsw, wbw, vw)
           mid == MidPointX(kw, Px(ww), hsw, wbw)
           wx == PyInt(MidPointXWeapon(kw, Px(ww)) - (Px(ww) \div 2))
       IN loc' = [loc EXCEPT ![w] =
              [@ EXCEPT !.is_headshot = hs, !.is_wallbang = wb,
                        !.killer_name_width = kw, !.victim_name_width = vw,
                        !.headshot_width = hsw, !.wallbang_width = wbw,
                        !.total_width = total, !.mid_point_x = mid,
                        !.killer_bg_shape = KillerBgShape(mid),
                        !.victim_bg_shape = VictimBgShape(mid, total),
                        !.yellow_rect_x = IF r.is_player_kill
                                          THEN PyInt(total - Px(120)) ELSE 0,
                        !.killer_agent_x = KillerAgentX,
                        !.victim_agent_x = VictimAgentX(total),
                        !.weapon_x = wx,
                        !.wallbang_x = IF wb THEN wx + ww + 40 ELSE 0,
                        !.headshot_x = IF hs THEN wx + ww + PyInt(wbw) + 40 ELSE 0,
                        !.killer_text_x = KillerTextX,
                        !.victim_text_x = VictimTextX(total, vw),
                        !.base_width = PyInt(total),
                        !.img = <<PyInt(total), IMG_HEIGHT>>]]
    /\ pc' = [pc EXCEPT ![w] = "rev_save"]
    /\ UNCHANGED <<clock, nticks, assets, dims, files, issued, nposts, req, resp>>

\* lines 246-252: the file name and the first save
RevSave(w) ==
    /\ pc[w] = "rev_save"
    /\ LET r == req[w]
           name == OutputFilename(r.killer_name, r.victim_name, r.numeral,
                                  clock, r.is_player_kill)
       IN /\ files' = Save(files, name, "base", loc[w].callid, loc[w].img, clock)
          /\ issued' = (loc[w].callid :> name) @@ issued
          /\ loc' = [loc EXCEPT ![w].output_filename = name, ![w].saved = "base"]
    /\ pc' = [pc EXCEPT ![w] = "rev_pk"]
    /\ UNCHANGED <<clock, nticks, assets, dims, nposts, req, resp>>

\* lines 259-299: a missing MeBorder.png is caught, a missing
\* MeBorderTriangle.png is not; the triangle goes right of the image
RevPlayerKill(w) ==
    /\ pc[w] = "rev_pk"
    /\ LET l == loc[w]
           tri == dims.triangle
           size == Extend(l.img, tri)
       IN IF ~req[w].is_player_kill
          THEN /\ pc' = [pc EXCEPT ![w] = "rev_num"]
               /\ UNCHANGED <<loc, files>>
          ELSE IF MeBorderTriangleFile \notin assets
          THEN /\ Return(w, [l EXCEPT !.me_highlight = MeBorderFile \in assets],
                         "raised", PathJoin("", ""))
               /\ UNCHANGED files
          ELSE /\ loc' = [loc EXCEPT ![w] =
                     [l EXCEPT !.me_highlight = MeBorderFile \in assets,
                               !.triangle_x = l.img[1],
                               !.img = size, !.saved = "me"]]
               /\ files' = Save(files, l.output_filename, "me", l.callid, size, clock)
               /\ pc' = [pc EXCEPT ![w] = "rev_num"]
    /\ UNCHANGED <<clock, nticks, assets, dims, issued, nposts, req, resp>>

\* lines 302-321: a missing Rev_Numeral_<n>.png is not caught; the image is
\* pasted at x = badge width and the badge at (12, 30)
RevNumeral(w) ==
    /\ pc[w] = "rev_num"
    /\ LET l == loc[w]
           badge == dims.numeral
           size == Extend(l.img, badge)
       IN IF ~Truthy(req[w].numeral)
          THEN /\ pc' = [pc EXCEPT ![w] = "rev_flatten"]
               /\ UNCHANGED <<loc, files>>
          ELSE IF NumeralFile(req[w].numeral) \notin assets
          THEN /\ Return(w, l, "raised", PathJoin("", ""))
               /\ UNCHANGED files
          ELSE /\ loc' = [loc EXCEPT ![w] =
                     [l EXCEPT !.content_x = l.content_x + badge[1],
                               !.triangle_x = IF req[w].is_player_kill
                                              THEN l.triangle_x + badge[1] ELSE 0,
                               !.numeral_x = 12,
                               !.img = size, !.saved = "numeral"]]
               /\ files' = Save(files, l.output_filename, "numeral", l.callid, size, clock)
               /\ pc' = [pc EXCEPT ![w] = "rev_flatten"]
    /\ UNCHANGED <<clock, nticks, assets, dims, issued, nposts, req, resp>>

\* lines 323-349: the background layer, the composite, the last save
RevFlatten(w) ==
    /\ pc[w] = "rev_flatten"
    /\ LET l == loc[w]
           offset_x == Px(l.img[1]) - l.total_width
       IN /\ Return(w, [l EXCEPT !.offset_x = offset_x,
                                 !.killer_bg_shape_shifted =
                                     ShiftShape(l.killer_bg_shape, offset_x),
                                 !.victim_bg_shape_shifted =
                                     ShiftShape(l.victim_bg_shape, -Px(1)),
                                 !.saved = "flat"],
                    "path", PathJoin(OUTPUT_PATH, l.output_filename))
          /\ files' = Save(files, l.output_filename, "flat", l.callid, l.img, clock)
    /\ UNCHANGED <<clock, nticks, assets, dims, issued, nposts, req, resp>>

\* generator.py (not among the sources): create_killfeed, the forward
\* compositor, from its contract: one finished file named like the reverse
\* variant's, or no artifact when a required asset is missing
ForwardCall(w) ==
    /\ pc[w] = "fwd"
    /\ LET r == req[w]
           name == OutputFilename(r.killer_name, r.victim_name, r.numeral,
                                  clock, r.is_player_kill)
       IN IF RequiredMissing(r, assets)
          THEN /\ Return(w, loc[w], "none", PathJoin("", ""))
               /\ UNCHANGED files
          ELSE /\ Return(w, [loc[w] EXCEPT !.output_filename = name, !.saved = "flat"],
                         "path", PathJoin(OUTPUT_PATH, name))
               /\ files' = Save(files, name, "flat", loc[w].callid, <<0, 0>>, clock)
    /\ UNCHANGED <<clock, nticks, assets, dims, issued, nposts, req, resp>>

----------------------------------------------------------------------------
(* Specifications *)

\* the form posts of the models of the server
FormPosts(numerals) ==
    [ killer_name : {"Jett"}, victim_name : {"Sage"}, killer_agent : {"Jett"},
      victim_agent : {"Sage"}, weapon : {"Classic"}, is_headshot : {FALSE},
      is_wallbang : {FALSE}, is_player_kill : BOOLEAN,
      is_enemy_kill : BOOLEAN, numeral : numerals ]

NumeralInputs == {NoneVal, "", "2", "3", "4", "5", "6", "7", "8"}

Compositor(w) ==
    \/ RevLoad(w) \/ RevLayout(w) \/ RevSave(w)
    \/ RevPlayerKill(w) \/ RevNumeral(w) \/ RevFlatten(w)

Handler(w, Requests) ==
    \/ Post(w, Requests) \/ CleanupStart(w) \/ CleanupFile(w)
    \/ Call(w) \/ ForwardCall(w) \/ Respond(w)

Init ==
    /\ clock = 0
    /\ nticks = 0
    /\ assets = AllAssets
    /\ dims = DefaultDims
    /\ files = <<>>
    /\ issued = <<>>
    /\ nposts = 0
    /\ pc = [w \in Workers |-> "idle"]
    /\ req = [w \in Workers |-> NoRequest]
    /\ loc = [w \in Workers |-> InitLoc]
    /\ resp = [w \in Workers |-> NoResponse]

\* the server run with two worker processes on one output directory
Next ==
    Tick \/ \E w \in Workers : Handler(w, FormPosts({NoneVal, "3", "8"})) \/ Compositor(w)

Spec == Init /\ [][Next]_vars

\* the server run with one process: the handler has no await, so requests
\* are served one after the other (here within one tick of the clock)
NextHandler == Handler("w1", FormPosts(NumeralInputs)) \/ Compositor("w1")

SpecHandler == Init /\ [][NextHandler]_vars

\* one call of create_rev_killfeed, for any arguments, asset directory and
\* asset measures
TextWidths == {0, 6731, 7850}
WeaponSizes == {<<512, 256>>, <<300, 91>>}
TriangleSizes == {<<64, 128>>, <<50, 140>>}
\* the badges are wider than the 12 pixels they are inset by
NumeralSizes == {<<96, 128>>, <<40, 100>>}

CallArgs ==
    [ killer_name : {"Jett"}, victim_name : {"Sage"}, killer_agent : {"Jett"},
      victim_agent : {"Sage"}, weapon : {"Classic"}, is_headshot : BOOLEAN,
      is_wallbang : BOOLEAN, is_player_kill : BOOLEAN,
      is_enemy_kill : {TRUE}, numeral : {NoneVal, "", "3", "7"} ]

InitCall ==
    /\ clock = 0
    /\ nticks = 0
    /\ assets \in AssetSets
    /\ dims \in [ text : [{"Jett", "Sage"} -> TextWidths], weapon : WeaponSizes,
                  triangle : TriangleSizes, numeral : NumeralSizes ]
    /\ files = <<>>
    /\ issued = <<>>
    /\ nposts = 1
    /\ pc = [w \in Workers |-> IF w = "w1" THEN "rev_load" ELSE "idle"]
    /\ req \in {[w \in Workers |-> IF w = "w1" THEN r ELSE NoRequest] : r \in CallArgs}
    /\ loc = [w \in Workers |-> IF w = "w1" THEN [InitLoc EXCEPT !.callid = 1] ELSE InitLoc]
    /\ resp = [w \in Workers |-> NoResponse]

NextCall == Compositor("w1")

SpecCall == InitCall /\ [][NextCall]_vars

----------------------------------------------------------------------------
(* Properties of one call of create_rev_killfeed (SpecCall) *)

Caller == "w1"
Args == req[Caller]
Locals == loc[Caller]

\* the call is over: it returned or an exception left it
Ended == pc[Caller] = "respond"
\* the call returned a path
Returned == Ended /\ Locals.image_path.kind = "path"
\* section 2 has run: the widths are computed and the canvas exists
LaidOut == Locals.total_width # 0

HeadshotDrawn == Args.is_headshot /\ HeadshotFile \in assets
WallbangDrawn == Args.is_wallbang /\ WallbangFile \in assets

\* x of the point of a background polygon: its vertex at half height
SeamX(shape) ==
    shape[CHOOSE i \in DOMAIN shape : shape[i][2] = IMG_HEIGHT \div 2][1]

\* the sum of the element widths and n paddings, in 1/Sub pixel
WidthSum(n, hs, wb) ==
    Px(256) + dims.text[Args.killer_name]
      + Px(ResizedWeaponWidth(dims.weapon))
      + (IF wb THEN Px(82) ELSE 0) + (IF hs THEN Px(82) ELSE 0)
      + dims.text[Args.victim_name] + Px(256) + n * Px(40)

\* C1: when the call is over, every file it wrote has had the final flatten
\* save: no failure leaves a file of an earlier save behind.
C1_NoPartialSequence ==
    Ended => \A f \in DOMAIN files :
                 files[f].by = Locals.callid => files[f].stage = "flat"

\* C4: with the font, an agent icon or the weapon icon missing, the call
\* returns None and the output directory stays as it was, whatever the
\* headshot, wallbang, player-kill and numeral arguments are.
C4_MissingRequiredAssetAborts ==
    ( \/ FONT_PATH \notin assets
      \/ AgentFile(Args.killer_agent \o ".png") \notin assets
      \/ AgentFile(Args.victim_agent \o ".png") \notin assets
      \/ WeaponFile(Args.weapon \o ".png") \notin assets )
    => /\ pc[Caller] \in {"rev_load", "respond"}
       /\ files = <<>>
       /\ Ended => Locals.image_path.kind = "none"

C4_Witness ==
    /\ Ended
    /\ WeaponFile(Args.weapon \o ".png") \notin assets
    /\ Args.is_headshot /\ Args.is_wallbang /\ Args.is_player_kill
    /\ Args.numeral = "3"
    /\ Locals.image_path.kind = "none"

\* C5: when no file other than headshot.png and wallbang.png is missing, a
\* set flag whose icon is missing is turned off, the widths are those of the
\* same call with the flag off, 82 pixels less than with the icon present,
\* and the call ends by returning the path of a file it has flattened.
C5_MissingOptionalIconSkipped ==
    (AllAssets \ assets) \subseteq {HeadshotFile, WallbangFile}
    => /\ LaidOut =>
            /\ Locals.is_headshot = HeadshotDrawn
            /\ Locals.is_wallbang = WallbangDrawn
            /\ (Args.is_headshot /\ HeadshotFile \notin assets) =>
                 /\ Locals.total_width = WidthSum(5, FALSE, WallbangDrawn)
                 /\ Locals.total_width = WidthSum(5, TRUE, WallbangDrawn) - Px(82)
                 /\ Locals.base_width = PyInt(WidthSum(5, TRUE, WallbangDrawn)) - 82
            /\ (Args.is_wallbang /\ WallbangFile \notin assets) =>
                 /\ Locals.total_width = WidthSum(5, HeadshotDrawn, FALSE)
                 /\ Locals.total_width = WidthSum(5, HeadshotDrawn, TRUE) - Px(82)
                 /\ Locals.base_width = PyInt(WidthSum(5, HeadshotDrawn, TRUE)) - 82
       /\ Ended =>
            /\ Locals.image_path.kind = "path"
            /\ Basename(Locals.image_path.path) \in DOMAIN files
            /\ files[Basename(Locals.image_path.path)].stage = "flat"

C5_Witness ==
    /\ Returned
    /\ Args.is_headshot /\ HeadshotFile \notin assets
    /\ Args.is_wallbang
    /\ Basename(Locals.image_path.path) \in DOMAIN files

\* C6 as stated: the computed width is the element widths plus four
\* paddings of 40.
C6_FourPaddings == LaidOut => Locals.total_width = WidthSum(4, HeadshotDrawn, WallbangDrawn)

\* C6 as amended: the computed width is the element widths plus five
\* paddings of 40, and the canvas width is its integer part.
C6_FivePaddings ==
    LaidOut => /\ Locals.total_width = WidthSum(5, HeadshotDrawn, WallbangDrawn)
               /\ Locals.base_width = WidthSum(5, HeadshotDrawn, WallbangDrawn) \div Sub

C6_Witness ==
    /\ Returned
    /\ HeadshotDrawn /\ ~WallbangDrawn
    /\ dims.text[Args.killer_name] = 6731
    /\ Locals.base_width * Sub < Locals.total_width

\* C7: the returned image is wider than the base canvas by the triangle's
\* width if player-kill is set plus the badge's width if a numeral is given;
\* the badge sits at x = 12, left of the content, which is shifted right by
\* the badge's width; the triangle fills the columns right of the content.
C7_ExtensionWidths ==
    Returned =>
      LET tri == IF Args.is_player_kill THEN dims.triangle[1] ELSE 0
          badge == IF Truthy(Args.numeral) THEN dims.numeral[1] ELSE 0
          out == files[Basename(Locals.image_path.path)]
      IN /\ out.size[1] = Locals.base_width + tri + badge
         /\ Locals.content_x = badge
         /\ Truthy(Args.numeral) =>
              Locals.numeral_x = 12 /\ Locals.numeral_x < Locals.content_x
         /\ Args.is_player_kill =>
              /\ Locals.triangle_x = Locals.content_x + Locals.base_width
              /\ Locals.triangle_x + tri = out.size[1]

C7_Witness ==
    /\ Returned
    /\ Args.is_player_kill /\ Args.numeral = "3"
    /\ files[Basename(Locals.image_path.path)].size[1]
         = Locals.base_width + dims.triangle[1] + dims.numeral[1]

\* C9 as stated: the killer's agent icon and name are at larger
\* x-coordinates than the victim's.
C9_KillerOnRight ==
    LaidOut => /\ Locals.killer_agent_x > Locals.victim_agent_x
               /\ Locals.killer_text_x > Locals.victim_text_x

\* C9 as amended: the killer's agent icon and name are at smaller
\* x-coordinates than the victim's (the killer is on the left).
C9_KillerOnLeft ==
    LaidOut => /\ Locals.killer_agent_x < Locals.victim_agent_x
               /\ Locals.killer_text_x < Locals.victim_text_x
               /\ Locals.killer_agent_x < Locals.killer_text_x
               /\ Locals.victim_text_x <= Locals.victim_agent_x

C9_Witness ==
    /\ Returned
    /\ Args.is_enemy_kill
    /\ Locals.killer_agent_x = 0
    /\ Locals.victim_agent_x > Locals.killer_text_x

\* C10: in the final flatten both background polygons are redrawn shifted
\* by the net width delta of the extensions, and their point lies on the
\* point of the backgrounds already in the composited image.
C10_SeamRealigned ==
    Returned =>
      LET delta == Px(Locals.img[1] - Locals.base_width)
      IN /\ Locals.killer_bg_shape_shifted = ShiftShape(Locals.killer_bg_shape, delta)
         /\ Locals.victim_bg_shape_shifted = ShiftShape(Locals.victim_bg_shape, delta)
         /\ SeamX(Locals.killer_bg_shape_shifted) = Locals.mid_point_x + Px(Locals.content_x)
         /\ SeamX(Locals.victim_bg_shape_shifted) = Locals.mid_point_x + Px(Locals.content_x)

----------------------------------------------------------------------------
(* Properties of the server (Spec, SpecHandler) *)

MidWrite(w) == pc[w] \in {"rev_pk", "rev_num", "rev_flatten"}

\* C2: no two invocations of the compositor use the same output filename.
C2_DistinctFilenames ==
    \A i, j \in DOMAIN issued : i # j => issued[i] # issued[j]

\* C3: a file that an invocation has saved first and not yet flattened is
\* not deleted by the cleanup pass of another request.
C3_MidWriteFileKept ==
    \A w \in Workers : MidWrite(w) => loc[w].output_filename \in DOMAIN files

\* C8: cleanup and the compositors run only for a numeral that is None, ""
\* or one of 3..7; for any other numeral the handler goes straight to its
\* response with the error message set.
C8_NumeralValidated ==
    \A w \in Workers :
      pc[w] # "idle" =>
        IF req[w].numeral \in {NoneVal, "", "3", "4", "5", "6", "7"}
        THEN loc[w].error = NoneVal
        ELSE /\ pc[w] = "respond"
             /\ loc[w].error # NoneVal
             /\ loc[w].image_path.kind = "pending"
             /\ loc[w].saved = "none"

C8_Witness ==
    /\ pc["w1"] = "respond"
    /\ req["w1"].numeral = "8"
    /\ loc["w1"].error # NoneVal
    /\ files # <<>>

\* C11: every POST that has been answered was answered with the rendered
\* form page: with the error message and no image URL when the numeral was
\* rejected, with the image URL otherwise; none ended in an exception.
C11_AlwaysFormPage ==
    \A w \in Workers :
      resp[w].status # 0 =>
        /\ resp[w].status = 200
        /\ IF resp[w].error # NoneVal
           THEN resp[w].image_url = NoneVal
           ELSE resp[w].image_url # NoneVal

====
